---------------------------- MODULE Spec2Model ----------------------------
(***************************************************************************)
(* A model of the cost-aware generation gateway of brain.py (class         *)
(* LLMBrain): the token estimate, the simulated cost, the fiscal ledger    *)
(* and the generate_response call around the generation engine.            *)
(*                                                                         *)
(* Costs are Python floats.  They are modelled as IEEE-754 binary64        *)
(* values with round-to-nearest-even, so that equalities between costs     *)
(* are the equalities the interpreter computes.                            *)
(***************************************************************************)
EXTENDS Integers, Sequences, FiniteSets, TLC

(***************************************************************************)
(* Natural numbers of any size: little-endian sequences of limbs in        *)
(* 0..Base-1 without leading zero limbs (zero is the empty sequence).      *)
(* A binary64 significand has 53 bits and does not fit a machine integer   *)
(* of the model checker.                                                   *)
(***************************************************************************)
LimbBits == 14

Base == 2 ^ LimbBits

RECURSIVE BStrip(_)
BStrip(a) ==
  IF a = <<>> THEN <<>>
  ELSE IF a[Len(a)] = 0 THEN BStrip(SubSeq(a, 1, Len(a) - 1))
  ELSE a

RECURSIVE BFromInt(_)
BFromInt(n) ==
  IF n = 0 THEN <<>> ELSE <<n % Base>> \o BFromInt(n \div Base)

RECURSIVE BAddC(_, _, _)
BAddC(a, b, c) ==
  IF a = <<>> /\ b = <<>> THEN (IF c = 0 THEN <<>> ELSE <<c>>)
  ELSE LET x == IF a = <<>> THEN 0 ELSE Head(a)
           y == IF b = <<>> THEN 0 ELSE Head(b)
           s == x + y + c
       IN  <<s % Base>> \o BAddC(IF a = <<>> THEN <<>> ELSE Tail(a),
                                 IF b = <<>> THEN <<>> ELSE Tail(b),
                                 s \div Base)

BAdd(a, b) == BAddC(a, b, 0)

RECURSIVE BMulSmallC(_, _, _)
BMulSmallC(a, k, c) ==
  IF a = <<>> THEN BFromInt(c)
  ELSE LET s == Head(a) * k + c
       IN  <<s % Base>> \o BMulSmallC(Tail(a), k, s \div Base)

\* a * k for 0 <= k <= Base
BMulSmall(a, k) == IF k = 0 THEN <<>> ELSE BMulSmallC(a, k, 0)

\* a * Base^n
BShiftLimbs(a, n) ==
  IF a = <<>> THEN <<>> ELSE [i \in 1..n |-> 0] \o a

RECURSIVE BMul(_, _)
BMul(a, b) ==
  IF b = <<>> THEN <<>>
  ELSE BAdd(BMulSmall(a, Head(b)), BShiftLimbs(BMul(a, Tail(b)), 1))

\* <<floor(a / k), a mod k>> for 1 <= k <= Base
RECURSIVE BDivSmallR(_, _, _, _)
BDivSmallR(a, k, i, r) ==
  IF i = 0 THEN <<<<>>, r>>
  ELSE LET cur  == r * Base + a[i]
           rest == BDivSmallR(a, k, i - 1, cur % k)
       IN  <<Append(rest[1], cur \div k), rest[2]>>

BDivSmall(a, k) ==
  LET qr == BDivSmallR(a, k, Len(a), 0)
  IN  <<BStrip(qr[1]), qr[2]>>

\* -1, 0, 1 as a < b, a = b, a > b
RECURSIVE BCmpAt(_, _, _)
BCmpAt(a, b, i) ==
  IF i = 0 THEN 0
  ELSE IF a[i] < b[i] THEN -1
  ELSE IF a[i] > b[i] THEN 1
  ELSE BCmpAt(a, b, i - 1)

BCmp(a, b) ==
  IF Len(a) < Len(b) THEN -1
  ELSE IF Len(a) > Len(b) THEN 1
  ELSE BCmpAt(a, b, Len(a))

RECURSIVE IntBitLen(_)
IntBitLen(n) == IF n = 0 THEN 0 ELSE 1 + IntBitLen(n \div 2)

BBitLen(a) ==
  IF a = <<>> THEN 0 ELSE (Len(a) - 1) * LimbBits + IntBitLen(a[Len(a)])

\* a * 2^n
BShl(a, n) == BShiftLimbs(BMulSmall(a, 2 ^ (n % LimbBits)), n \div LimbBits)

\* floor(a / 2^n)
BShr(a, n) ==
  LET drop == n \div LimbBits
  IN  IF drop >= Len(a) THEN <<>>
      ELSE BDivSmall(SubSeq(a, drop + 1, Len(a)), 2 ^ (n % LimbBits))[1]

BIsOdd(a) == a # <<>> /\ a[1] % 2 = 1

(***************************************************************************)
(* Python float: a non-negative binary64 value is [m, e] with value        *)
(* m * 2^e, m a 53-bit significand (2^52 <= m < 2^53), or zero.  The       *)
(* costs of this program lie far inside the normal range, so subnormals,   *)
(* infinities and NaN do not occur.                                        *)
(***************************************************************************)
SigBits == 53

FZero == [m |-> <<>>, e |-> 0]

\* The binary64 nearest to n * 2^e (ties to even); inexact says that the
\* exact value lies strictly above n * 2^e and below (n + 1) * 2^e.
FRound(n, e, inexact) ==
  IF n = <<>> THEN FZero
  ELSE LET len == BBitLen(n)
       IN  IF len <= SigBits
           THEN [m |-> BShl(n, SigBits - len), e |-> e - (SigBits - len)]
           ELSE LET d      == len - SigBits
                    q1     == BShr(n, d - 1)
                    half   == BIsOdd(q1)
                    below  == inexact \/ BShl(q1, d - 1) # n
                    q      == BShr(q1, 1)
                    up     == half /\ (below \/ BIsOdd(q))
                    r      == IF up THEN BAdd(q, <<1>>) ELSE q
                IN  IF BBitLen(r) > SigBits
                    THEN [m |-> BShr(r, 1), e |-> e + d + 1]
                    ELSE [m |-> r, e |-> e + d]

\* int -> float, exact for the integers of this model (below 2^53)
FFromInt(n) == FRound(BFromInt(n), 0, FALSE)

\* Extra quotient bits kept by a division before rounding.
GuardBits == 5 * LimbBits

\* x / k for a float x and an int 1 <= k <= Base, correctly rounded.
FDivInt(x, k) ==
  LET qr == BDivSmall(BShl(x.m, GuardBits), k)
  IN  FRound(qr[1], x.e - GuardBits, qr[2] # 0)

\* x * y, correctly rounded
FMul(x, y) == FRound(BMul(x.m, y.m), x.e + y.e, FALSE)

\* x + y, correctly rounded
FAdd(x, y) ==
  IF x.m = <<>> THEN y
  ELSE IF y.m = <<>> THEN x
  ELSE LET e == IF x.e < y.e THEN x.e ELSE y.e
       IN  FRound(BAdd(BShl(x.m, x.e - e), BShl(y.m, y.e - e)), e, FALSE)

\* -1, 0, 1 as x < y, x = y, x > y
FCmp(x, y) ==
  IF x.m = <<>> /\ y.m = <<>> THEN 0
  ELSE IF x.m = <<>> THEN -1
  ELSE IF y.m = <<>> THEN 1
  ELSE IF x.e < y.e THEN -1
  ELSE IF x.e > y.e THEN 1
  ELSE BCmp(x.m, y.m)

\* The float a decimal literal p / 10^(3 * thousands) denotes.
RECURSIVE DivThousands(_, _, _)
DivThousands(n, thousands, inexact) ==
  IF thousands = 0 THEN <<n, inexact>>
  ELSE LET qr == BDivSmall(n, 1000)
       IN  DivThousands(qr[1], thousands - 1, inexact \/ qr[2] # 0)

FLiteral(p, thousands) ==
  LET k  == GuardBits + 10 * thousands
      qr == DivThousands(BShl(BFromInt(p), k), thousands, FALSE)
  IN  FRound(qr[1], -k, qr[2])

(***************************************************************************)
(* Module constants of brain.py.                                           *)
(***************************************************************************)
\* COST_PER_1K_TOKENS = 0.015
COST_PER_1K_TOKENS == FLiteral(15, 1)

CHARS_PER_TOKEN == 4

\* the divisor of "estimated_tokens / 1000"
PerThousand == 1000

DEFAULT_MODEL == "llama3.1"

(***************************************************************************)
(* Texts are sequences of characters.  An Optional[str] is None or         *)
(* Some(text).                                                             *)
(***************************************************************************)
Rep(c, n) == [i \in 1..n |-> c]

None == <<>>

Some(text) == <<text>>

\* Python truthiness of an Optional[str]: None and "" are falsy
Truthy(opt) == opt # None /\ Len(opt[1]) > 0

\* opt or ""
OrEmpty(opt) == IF Truthy(opt) THEN opt[1] ELSE <<>>

Max(a, b) == IF a >= b THEN a ELSE b

(***************************************************************************)
(* LLMBrain.calculate_simulated_cost                                       *)
(***************************************************************************)
\* (mutant) the estimate without its floor of one token
EstimatedTokens_Unfloored(text) == Len(text) \div CHARS_PER_TOKEN

\* (mutant) the remainder taken in place of the quotient
EstimatedTokens_Remainder(text) == Max(1, Len(text) % CHARS_PER_TOKEN)

\* estimated_tokens = max(1, len(text) // CHARS_PER_TOKEN)
EstimatedTokens(text) == Max(1, Len(text) \div CHARS_PER_TOKEN)

\* (mutant) the product taken before the division: (tokens * rate) / 1000
SimulatedCost_ProductFirst(tokens) ==
  FDivInt(FMul(FFromInt(tokens), COST_PER_1K_TOKENS), PerThousand)

\* simulated_cost = (estimated_tokens / 1000) * COST_PER_1K_TOKENS
SimulatedCost(tokens) ==
  FMul(FDivInt(FFromInt(tokens), PerThousand), COST_PER_1K_TOKENS)

(***************************************************************************)
(* Bounds of the model and the inputs drawn within them.                   *)
(***************************************************************************)
\* generate_response calls started on one gateway
MaxCalls == 3

\* longest text handed to calculate_simulated_cost
MaxTextLen == 40

(***************************************************************************)
(* The agents (researcher.py, writer.py): their personas, the prompts they *)
(* build around the text they read, the keys of their blobs.  A text of    *)
(* the source is modelled by its length.                                   *)
(***************************************************************************)
Agents == {"researcher", "writer"}

\* SYSTEM_PROMPT
SYSTEM_PROMPT(a) == IF a = "researcher" THEN Rep("s", 188) ELSE Rep("s", 244)

\* the f-string of analyze_topic / format_executive_summary, before and
\* after the text that was read
PromptHead(a) == IF a = "researcher" THEN Rep("h", 95) ELSE Rep("h", 72)

PromptTail(a) == IF a = "researcher" THEN Rep("e", 153) ELSE Rep("e", 238)

AgentPrompt(a, text) == PromptHead(a) \o text \o PromptTail(a)

INPUT_FILE(a) ==
  IF a = "researcher" THEN "research_topic.txt" ELSE "research_notes.txt"

OUTPUT_FILE(a) ==
  IF a = "researcher" THEN "research_notes.txt"
                      ELSE "reports/executive_summary.txt"

\* longest input blob
MaxTopicLen == 5

\* workflow runs started on one agent
MaxRuns == 2

Topics == {Rep("t", n) : n \in {0, MaxTopicLen}}

\* the most tokens a text of the model can have
MaxTokens ==
  Max(MaxTextLen,
      (Len(SYSTEM_PROMPT("writer")) + Len(AgentPrompt("writer", <<>>))
         + MaxTopicLen) \div CHARS_PER_TOKEN)

\* SimulatedCost of every token count a text of the model can have,
\* evaluated once.
CostOfTokens == [tokens \in 0..MaxTokens |-> SimulatedCost(tokens)]

calculate_simulated_cost(text) ==
  LET estimated_tokens == EstimatedTokens(text)
  IN  <<estimated_tokens, CostOfTokens[estimated_tokens]>>

EstimateTexts == {Rep("x", n) : n \in 0..MaxTextLen}

Prompts == {Rep("p", n) : n \in {0, 3, 6}}

SystemMessages == {None} \cup {Some(Rep("s", n)) : n \in {0, 6}}

ReplyTexts == {Rep("r", n) : n \in {0, 4, 9}}

Models == {DEFAULT_MODEL, "mistral"}

\* The caller of the program, and a second caller sharing the gateway.
MainThread == 1

Threads == {1, 2}

(***************************************************************************)
(* The generation engine (the ollama client) is outside the repository:    *)
(* chat returns a response or raises, list returns or raises.  A response  *)
(* is a mapping; a well-formed one holds message.content, a text.  What    *)
(* the engine hands back is not in the hands of this code: a response may  *)
(* lack message, or content, or hold a null content.                       *)
(***************************************************************************)
EngineErrors == {"ConnectionError", "ResponseError"}

WellFormed(text) ==
  [message |-> [role |-> "assistant", content |-> Some(text)]]

Malformed ==
  {[done |-> TRUE],
   [message |-> [role |-> "assistant"]],
   [message |-> [role |-> "assistant", content |-> None]]}

ChatOutcomes ==
  {[raised |-> FALSE, response |-> WellFormed(text), exc |-> ""] :
      text \in ReplyTexts}
  \cup {[raised |-> FALSE, response |-> r, exc |-> ""] : r \in Malformed}
  \cup {[raised |-> TRUE, response |-> [done |-> FALSE], exc |-> e] :
      e \in EngineErrors}

\* mapping[key], which raises KeyError for an absent key
HasKey(mapping, key) == key \in DOMAIN mapping

VARIABLES
  model,                \* self.model
  total_tokens_used,    \* self.total_tokens_used
  total_cost_incurred,  \* self.total_cost_incurred
  pc,                   \* per caller: where it stands in generate_response
  frame,                \* per caller: the locals of generate_response
  ret,                  \* per caller: what its last operation gave back
  before,               \* history: the ledger when the caller's call began
  engine_calls,         \* history: chat invocations of the caller's call
  engine_exc,           \* history: what the engine raised in that call
  calls,                \* history: generate_response calls started
  expected,             \* history: the per-call totals summed in the order
                        \* in which the calls finished accumulating
  raced,                \* history: two accumulations have overlapped
  successes,            \* history: generate_response calls that returned
  agent,                \* which agent owns the gateway ("none": no agent)
  run,                  \* the agent's workflow run: its locals and history
  store,                \* the bucket: the blobs by key
  runs                  \* history: workflow runs started

agent_vars == <<agent, run, store, runs>>

vars == <<model, total_tokens_used, total_cost_incurred, pc, frame, ret,
          before, engine_calls, engine_exc, calls, expected, raced,
          successes, agent_vars>>

Ledger == [tokens |-> total_tokens_used, cost |-> total_cost_incurred]

EmptyFrame ==
  [prompt |-> <<>>, system_message |-> None, messages |-> <<>>,
   input_tokens |-> 0, input_cost |-> FZero,
   response |-> [done |-> FALSE], response_text |-> <<>>,
   output_tokens |-> 0, output_cost |-> FZero,
   total_tokens |-> 0, total_cost |-> FZero,
   loaded_tokens |-> 0, loaded_cost |-> FZero]

NoResult == [op |-> "none", kind |-> "none"]

\* No workflow run: the locals of research_and_summarize / polish_and_publish
\* and, as history, the steps the run has taken and the ledger and the
\* output blob it started from.
NoRun ==
  [stage |-> "idle", topic |-> <<>>, response |-> NoResult,
   content |-> NoResult, result |-> NoResult,
   reads |-> 0, gateway_calls |-> 0, writes |-> 0,
   ledger0 |-> [tokens |-> 0, cost |-> FZero], output0 |-> None]

\* LLMBrain.__init__
Init ==
  /\ model \in Models
  /\ total_tokens_used = 0
  /\ total_cost_incurred = FZero
  /\ pc = [t \in Threads |-> "idle"]
  /\ frame = [t \in Threads |-> EmptyFrame]
  /\ ret = [t \in Threads |-> NoResult]
  /\ before = [t \in Threads |-> [tokens |-> 0, cost |-> FZero]]
  /\ engine_calls = [t \in Threads |-> 0]
  /\ engine_exc = [t \in Threads |-> ""]
  /\ calls = 0
  /\ expected = [tokens |-> 0, cost |-> FZero]
  /\ raced = FALSE
  /\ successes = 0
  /\ agent = "none"
  /\ run = NoRun
  /\ store = <<>>
  /\ runs = 0

(***************************************************************************)
(* LLMBrain.generate_response, one action per step.  The two "+=" on the   *)
(* ledger are each a load and a store: nothing in the code makes them one  *)
(* step against a second caller.                                           *)
(***************************************************************************)
\* (mutant) the system message is left out only for None
BuildMessages_IfNotNone(prompt, system_message) ==
  (IF system_message # None
     THEN <<[role |-> "system", content |-> system_message[1]]>>
     ELSE <<>>)
  \o <<[role |-> "user", content |-> prompt]>>

\* messages = [system?] + [user]
BuildMessages(prompt, system_message) ==
  (IF Truthy(system_message)
     THEN <<[role |-> "system", content |-> system_message[1]]>>
     ELSE <<>>)
  \o <<[role |-> "user", content |-> prompt]>>

\* input_text = (system_message or "") + prompt
InputText(prompt, system_message) == OrEmpty(system_message) \o prompt

\* (mutant) the two parts estimated apart and summed
InputEstimate_Separate(prompt, system_message) ==
  LET a == calculate_simulated_cost(OrEmpty(system_message))
      b == calculate_simulated_cost(prompt)
  IN  <<a[1] + b[1], FAdd(a[2], b[2])>>

\* (mutant) the input side is not floored at one token
InputEstimate_Unfloored(prompt, system_message) ==
  LET tokens == Len(InputText(prompt, system_message)) \div CHARS_PER_TOKEN
  IN  <<tokens, CostOfTokens[tokens]>>

InputEstimate(prompt, system_message) ==
  calculate_simulated_cost(InputText(prompt, system_message))

\* Entry of the call up to the engine call: the messages and the input cost.
Invoke(t, prompt, system_message) ==
  /\ pc[t] = "idle"
  /\ LET input == InputEstimate(prompt, system_message)
     IN  frame' = [frame EXCEPT ![t] =
                     [EmptyFrame EXCEPT
                        !.prompt = prompt,
                        !.system_message = system_message,
                        !.messages = BuildMessages(prompt, system_message),
                        !.input_tokens = input[1],
                        !.input_cost = input[2]]]
  /\ pc' = [pc EXCEPT ![t] = "chat"]
  /\ ret' = [ret EXCEPT ![t] = NoResult]
  /\ before' = [before EXCEPT ![t] = Ledger]
  /\ engine_calls' = [engine_calls EXCEPT ![t] = 0]
  /\ engine_exc' = [engine_exc EXCEPT ![t] = ""]
  /\ calls' = calls + 1
  /\ UNCHANGED <<model, total_tokens_used, total_cost_incurred, expected, raced>>
  /\ UNCHANGED successes

Call(t) ==
  /\ calls < MaxCalls
  /\ \E prompt \in Prompts, system_message \in SystemMessages :
       Invoke(t, prompt, system_message)
  /\ UNCHANGED agent_vars

\* (mutant) the input-side estimate is charged before the exception leaves
Raise_ChargingInput(t, exc) ==
  /\ pc' = [pc EXCEPT ![t] = "idle"]
  /\ ret' = [ret EXCEPT ![t] =
               [op |-> "generate_response", kind |-> "raised", exc |-> exc]]
  /\ total_tokens_used' = total_tokens_used + frame[t].input_tokens
  /\ total_cost_incurred' = FAdd(total_cost_incurred, frame[t].input_cost)

\* (mutant) the ledger is reset when a call fails
Raise_ResettingLedger(t, exc) ==
  /\ pc' = [pc EXCEPT ![t] = "idle"]
  /\ ret' = [ret EXCEPT ![t] =
               [op |-> "generate_response", kind |-> "raised", exc |-> exc]]
  /\ total_tokens_used' = 0
  /\ total_cost_incurred' = FZero

\* An exception leaves generate_response: nothing in it catches one.
Raise(t, exc) ==
  /\ pc' = [pc EXCEPT ![t] = "idle"]
  /\ ret' = [ret EXCEPT ![t] =
               [op |-> "generate_response", kind |-> "raised", exc |-> exc]]
  /\ UNCHANGED <<total_tokens_used, total_cost_incurred>>

\* (mutant) the engine's exception is wrapped in another one
ChatRaises_Wrapping(t, exc) ==
  /\ pc' = [pc EXCEPT ![t] = "idle"]
  /\ ret' = [ret EXCEPT ![t] =
               [op |-> "generate_response", kind |-> "raised",
                exc |-> "RuntimeError"]]
  /\ UNCHANGED <<total_tokens_used, total_cost_incurred, frame>>

\* (mutant) a failed engine call is tried once more
ChatRaises_Retrying(t, exc) ==
  IF engine_calls[t] = 0
    THEN UNCHANGED <<pc, ret, total_tokens_used, total_cost_incurred, frame>>
    ELSE /\ pc' = [pc EXCEPT ![t] = "idle"]
         /\ ret' = [ret EXCEPT ![t] =
                      [op |-> "generate_response", kind |-> "raised",
                       exc |-> exc]]
         /\ UNCHANGED <<total_tokens_used, total_cost_incurred, frame>>

ChatRaises(t, exc) ==
  /\ Raise(t, exc)
  /\ UNCHANGED frame

ChatReturns(t, response) ==
  /\ frame' = [frame EXCEPT ![t].response = response]
  /\ pc' = [pc EXCEPT ![t] = "extract"]
  /\ UNCHANGED <<ret, total_tokens_used, total_cost_incurred>>

\* response = self._client.chat(model=self.model, messages=messages)
Chat(t) ==
  /\ pc[t] = "chat"
  /\ engine_calls' = [engine_calls EXCEPT ![t] = @ + 1]
  /\ \E o \in ChatOutcomes :
       /\ engine_exc' = [engine_exc EXCEPT ![t] = o.exc]
       /\ IF o.raised THEN ChatRaises(t, o.exc)
                      ELSE ChatReturns(t, o.response)
  /\ UNCHANGED <<model, before, calls, expected, raced>>
  /\ UNCHANGED <<successes, agent_vars>>

\* response["message"]["content"] is there
HasText(response) ==
  HasKey(response, "message") /\ HasKey(response.message, "content")

\* (mutant) the call's cost leaves out the output side
CallTotals_InputCostOnly(input_tokens, input_cost, output_tokens, output_cost) ==
  <<input_tokens + output_tokens, input_cost>>

\* total_tokens, total_cost of the call
CallTotals(input_tokens, input_cost, output_tokens, output_cost) ==
  <<input_tokens + output_tokens, FAdd(input_cost, output_cost)>>

\* response["message"]["content"] is a text: len() takes it
IsText(response) == HasText(response) /\ response.message.content # None

\* response_text = response["message"]["content"], the output cost, the
\* totals.  The subscription raises KeyError for an absent key, and
\* len(response_text) raises TypeError for a null content.
Extract(t) ==
  /\ pc[t] = "extract"
  /\ IF IsText(frame[t].response)
       THEN LET response_text == frame[t].response.message.content[1]
                output == calculate_simulated_cost(response_text)
                totals == CallTotals(frame[t].input_tokens,
                                     frame[t].input_cost, output[1], output[2])
            IN  /\ frame' = [frame EXCEPT
                               ![t].response_text = response_text,
                               ![t].output_tokens = output[1],
                               ![t].output_cost = output[2],
                               ![t].total_tokens = totals[1],
                               ![t].total_cost = totals[2]]
                /\ pc' = [pc EXCEPT ![t] = "load_tokens"]
                /\ UNCHANGED <<ret, total_tokens_used, total_cost_incurred>>
       ELSE /\ Raise(t, IF HasText(frame[t].response) THEN "TypeError"
                                                       ELSE "KeyError")
            /\ UNCHANGED frame
  /\ UNCHANGED <<model, before, engine_calls, engine_exc, calls, expected,
                 raced>>
  /\ UNCHANGED <<successes, agent_vars>>

\* The callers between the load of the first "+=" and the store of the second.
Accumulating == {t \in Threads : pc[t] \in {"store_tokens", "load_cost", "store_cost"}}

\* (mutant) the counter is taken as it was when the call began
LoadTokens_Stale(t) ==
  /\ pc[t] = "load_tokens"
  /\ frame' = [frame EXCEPT ![t].loaded_tokens = before[t].tokens]
  /\ pc' = [pc EXCEPT ![t] = "store_tokens"]
  /\ raced' = (raced \/ Accumulating \ {t} # {})
  /\ UNCHANGED <<model, total_tokens_used, total_cost_incurred, ret, before,
                 engine_calls, engine_exc, calls, expected>>
  /\ UNCHANGED <<successes, agent_vars>>

\* self.total_tokens_used += total_tokens: the load
LoadTokens(t) ==
  /\ pc[t] = "load_tokens"
  /\ frame' = [frame EXCEPT ![t].loaded_tokens = total_tokens_used]
  /\ pc' = [pc EXCEPT ![t] = "store_tokens"]
  /\ raced' = (raced \/ Accumulating \ {t} # {})
  /\ UNCHANGED <<model, total_tokens_used, total_cost_incurred, ret, before,
                 engine_calls, engine_exc, calls, expected>>
  /\ UNCHANGED <<successes, agent_vars>>

\* (mutant) only the output side is accumulated
AccumulatedTokens_OutputOnly(t) ==
  frame[t].loaded_tokens + frame[t].output_tokens

AccumulatedTokens(t) == frame[t].loaded_tokens + frame[t].total_tokens

\* self.total_tokens_used += total_tokens: the store
StoreTokens(t) ==
  /\ pc[t] = "store_tokens"
  /\ total_tokens_used' = AccumulatedTokens(t)
  /\ pc' = [pc EXCEPT ![t] = "load_cost"]
  /\ UNCHANGED <<model, total_cost_incurred, frame, ret, before, engine_calls,
                 engine_exc, calls, expected, raced>>
  /\ UNCHANGED <<successes, agent_vars>>

\* self.total_cost_incurred += total_cost: the load
LoadCost(t) ==
  /\ pc[t] = "load_cost"
  /\ frame' = [frame EXCEPT ![t].loaded_cost = total_cost_incurred]
  /\ pc' = [pc EXCEPT ![t] = "store_cost"]
  /\ UNCHANGED <<model, total_tokens_used, total_cost_incurred, ret, before,
                 engine_calls, engine_exc, calls, expected, raced>>
  /\ UNCHANGED <<successes, agent_vars>>

\* (mutant) only the input side of the cost is accumulated
AccumulatedCost_InputOnly(t) == FAdd(frame[t].loaded_cost, frame[t].input_cost)

AccumulatedCost(t) == FAdd(frame[t].loaded_cost, frame[t].total_cost)

\* self.total_cost_incurred += total_cost: the store
StoreCost(t) ==
  /\ pc[t] = "store_cost"
  /\ total_cost_incurred' = AccumulatedCost(t)
  /\ pc' = [pc EXCEPT ![t] = "return"]
  /\ expected' = [tokens |-> expected.tokens + frame[t].total_tokens,
                  cost |-> FAdd(expected.cost, frame[t].total_cost)]
  /\ UNCHANGED <<model, total_tokens_used, frame, ret, before, engine_calls,
                 engine_exc, calls, raced>>
  /\ UNCHANGED <<successes, agent_vars>>

\* (mutant) the response carries the ledger's running totals
LLMResponse_RunningTotals(t) ==
  [text |-> frame[t].response_text,
   estimated_tokens |-> total_tokens_used,
   simulated_cost |-> total_cost_incurred,
   model |-> model]

\* LLMResponse(text=..., estimated_tokens=..., simulated_cost=..., model=...)
LLMResponse(t) ==
  [text |-> frame[t].response_text,
   estimated_tokens |-> frame[t].total_tokens,
   simulated_cost |-> frame[t].total_cost,
   model |-> model]

Return(t) ==
  /\ pc[t] = "return"
  /\ ret' = [ret EXCEPT ![t] =
               [op |-> "generate_response", kind |-> "returned",
                value |-> LLMResponse(t)]]
  /\ pc' = [pc EXCEPT ![t] = "idle"]
  /\ UNCHANGED <<model, total_tokens_used, total_cost_incurred, frame, before,
                 engine_calls, engine_exc, calls, expected, raced>>
  /\ successes' = successes + 1
  /\ UNCHANGED agent_vars

(***************************************************************************)
(* The other operations of the gateway.                                    *)
(***************************************************************************)
\* The caller starts an operation that is not generate_response: the locals of
\* its last generate_response are gone, the history starts afresh.
Begin(t) ==
  /\ frame' = [frame EXCEPT ![t] = EmptyFrame]
  /\ before' = [before EXCEPT ![t] = Ledger]
  /\ engine_calls' = [engine_calls EXCEPT ![t] = 0]
  /\ engine_exc' = [engine_exc EXCEPT ![t] = ""]

\* (mutant) the estimate is charged to the ledger
Estimate_Charging(t) ==
  /\ pc[t] = "idle"
  /\ \E text \in EstimateTexts :
       LET value == calculate_simulated_cost(text)
       IN  /\ ret' = [ret EXCEPT ![t] =
                        [op |-> "calculate_simulated_cost",
                         kind |-> "returned", arg |-> text, value |-> value]]
           /\ total_tokens_used' = total_tokens_used + value[1]
           /\ total_cost_incurred' = FAdd(total_cost_incurred, value[2])
  /\ Begin(t)
  /\ UNCHANGED <<model, pc, calls, expected, raced>>
  /\ UNCHANGED <<successes, agent_vars>>

\* a direct call of calculate_simulated_cost
Estimate(t) ==
  /\ pc[t] = "idle"
  /\ \E text \in EstimateTexts :
       ret' = [ret EXCEPT ![t] =
                 [op |-> "calculate_simulated_cost", kind |-> "returned",
                  arg |-> text, value |-> calculate_simulated_cost(text)]]
  /\ Begin(t)
  /\ UNCHANGED <<model, total_tokens_used, total_cost_incurred, pc, calls,
                 expected, raced>>
  /\ UNCHANGED <<successes, agent_vars>>

\* (mutant) the cost of the summary recomputed from the token counter
FiscalSummary_CostFromTokens ==
  [total_tokens_used |-> total_tokens_used,
   total_cost_incurred |-> SimulatedCost(total_tokens_used),
   cost_per_1k_tokens |-> COST_PER_1K_TOKENS,
   model |-> model]

\* the dict get_fiscal_summary returns
FiscalSummary ==
  [total_tokens_used |-> total_tokens_used,
   total_cost_incurred |-> total_cost_incurred,
   cost_per_1k_tokens |-> COST_PER_1K_TOKENS,
   model |-> model]

GetFiscalSummary(t) ==
  /\ pc[t] = "idle"
  /\ ret' = [ret EXCEPT ![t] =
               [op |-> "get_fiscal_summary", kind |-> "returned",
                value |-> FiscalSummary]]
  /\ Begin(t)
  /\ UNCHANGED <<model, total_tokens_used, total_cost_incurred, pc, calls,
                 expected, raced>>
  /\ UNCHANGED <<successes, agent_vars>>

\* self._client.list() returns or raises; any exception becomes False
ListOutcomes == {""} \cup EngineErrors

\* (mutant) only ConnectionError is caught, any other exception leaves
CheckConnection_NarrowCatch(t) ==
  /\ pc[t] = "idle"
  /\ \E exc \in ListOutcomes :
       /\ ret' = [ret EXCEPT ![t] =
                    IF exc \in {"", "ConnectionError"}
                      THEN [op |-> "check_connection", kind |-> "returned",
                            value |-> (exc = "")]
                      ELSE [op |-> "check_connection", kind |-> "raised",
                            exc |-> exc]]
       /\ engine_exc' = [engine_exc EXCEPT ![t] = exc]
  /\ frame' = [frame EXCEPT ![t] = EmptyFrame]
  /\ before' = [before EXCEPT ![t] = Ledger]
  /\ engine_calls' = [engine_calls EXCEPT ![t] = 0]
  /\ UNCHANGED <<model, total_tokens_used, total_cost_incurred, pc, calls,
                 expected, raced>>
  /\ UNCHANGED <<successes, agent_vars>>

\* try: self._client.list(); return True / except Exception: return False.
\* engine_exc keeps what list raised ("" when it returned).
CheckConnection(t) ==
  /\ pc[t] = "idle"
  /\ \E exc \in ListOutcomes :
       /\ ret' = [ret EXCEPT ![t] =
                    [op |-> "check_connection", kind |-> "returned",
                     value |-> (exc = "")]]
       /\ engine_exc' = [engine_exc EXCEPT ![t] = exc]
  /\ frame' = [frame EXCEPT ![t] = EmptyFrame]
  /\ before' = [before EXCEPT ![t] = Ledger]
  /\ engine_calls' = [engine_calls EXCEPT ![t] = 0]
  /\ UNCHANGED <<model, total_tokens_used, total_cost_incurred, pc, calls,
                 expected, raced>>
  /\ UNCHANGED <<successes, agent_vars>>

(***************************************************************************)
(* The program as written: one caller, one operation at a time.            *)
(***************************************************************************)
Next ==
  \/ Estimate(MainThread)
  \/ GetFiscalSummary(MainThread)
  \/ CheckConnection(MainThread)
  \/ Call(MainThread)
  \/ Chat(MainThread)
  \/ Extract(MainThread)
  \/ LoadTokens(MainThread)
  \/ StoreTokens(MainThread)
  \/ LoadCost(MainThread)
  \/ StoreCost(MainThread)
  \/ Return(MainThread)

Spec == Init /\ [][Next]_vars

(***************************************************************************)
(* Two callers sharing one gateway, their generate_response calls          *)
(* interleaved step by step.                                               *)
(***************************************************************************)
MaxConcurrentCalls == 2

ConcurrentCall(t) ==
  /\ calls < MaxConcurrentCalls
  /\ \E prompt \in {Rep("p", 3)},
        system_message \in {None, Some(Rep("s", 6))} :
       Invoke(t, prompt, system_message)
  /\ UNCHANGED agent_vars

NextConcurrent ==
  \E t \in Threads :
    \/ ConcurrentCall(t)
    \/ Chat(t)
    \/ Extract(t)
    \/ LoadTokens(t)
    \/ StoreTokens(t)
    \/ LoadCost(t)
    \/ StoreCost(t)
    \/ Return(t)

SpecConcurrent == Init /\ [][NextConcurrent]_vars

(***************************************************************************)
(* Two callers of calculate_simulated_cost on one gateway, the first of    *)
(* them also calling generate_response between its estimates: each caller  *)
(* holds the result of its last estimate.                                  *)
(***************************************************************************)
MaxCallsBetweenEstimates == 1

CallBetweenEstimates(t) ==
  /\ calls < MaxCallsBetweenEstimates
  /\ Invoke(t, Rep("p", 3), None)
  /\ UNCHANGED agent_vars

NextEstimates ==
  \/ \E t \in Threads : Estimate(t)
  \/ CallBetweenEstimates(MainThread)
  \/ Chat(MainThread)
  \/ Extract(MainThread)
  \/ LoadTokens(MainThread)
  \/ StoreTokens(MainThread)
  \/ LoadCost(MainThread)
  \/ StoreCost(MainThread)
  \/ Return(MainThread)

SpecEstimates == Init /\ [][NextEstimates]_vars

(***************************************************************************)
(* An agent and its workflow (ResearcherAgent.research_and_summarize,      *)
(* WriterAgent.polish_and_publish, the same steps in both): read the input *)
(* blob, call generate_response of the agent's own gateway, write the      *)
(* output blob.  The bucket is outside the repository: get_object returns  *)
(* the blob of a key that is there, raises NoSuchKey for one that is not,  *)
(* or fails; put_object stores the blob and returns, or fails.             *)
(***************************************************************************)
\* the blob under a key, if any
Blob(bucket, key) == IF key \in DOMAIN bucket THEN Some(bucket[key]) ELSE None

\* ResearcherAgent.__init__ / WriterAgent.__init__: self.brain = LLMBrain()
NewAgent(a) ==
  /\ agent = "none"
  /\ calls = 0
  /\ agent' = a
  /\ model' = DEFAULT_MODEL
  /\ total_tokens_used' = 0
  /\ total_cost_incurred' = FZero
  /\ UNCHANGED <<pc, frame, ret, before, engine_calls, engine_exc, calls,
                 expected, raced, successes, run, store, runs>>

\* Someone puts the input blob of the agent into the bucket.
Upload(text) ==
  /\ agent # "none"
  /\ run.stage = "idle"
  /\ store' = (INPUT_FILE(agent) :> text) @@ store
  /\ UNCHANGED <<model, total_tokens_used, total_cost_incurred, pc, frame,
                 ret, before, engine_calls, engine_exc, calls, expected,
                 raced, successes, agent, run, runs>>

\* research_and_summarize() / polish_and_publish() is called
StartRun(t) ==
  /\ agent # "none"
  /\ run.stage = "idle"
  /\ pc[t] = "idle"
  /\ runs < MaxRuns
  /\ run' = [NoRun EXCEPT !.stage = "read",
                          !.ledger0 = Ledger,
                          !.output0 = Blob(store, OUTPUT_FILE(agent))]
  /\ runs' = runs + 1
  /\ UNCHANGED <<model, total_tokens_used, total_cost_incurred, pc, frame,
                 ret, before, engine_calls, engine_exc, calls, expected,
                 raced, successes, agent, store>>

\* the run ends in an exception raised at a step
RunRaises(exc, step) ==
  [run EXCEPT !.stage = "idle",
              !.result = [kind |-> "raised", exc |-> exc, at |-> step]]

\* what get_object does: "ok" only for a key that is there, "NoSuchKey" only
\* for one that is not, "error" in either case
GetOutcomes(bucket, key) ==
  {"error"} \cup (IF key \in DOMAIN bucket THEN {"ok"} ELSE {"NoSuchKey"})

\* (mutant) a blob that cannot be read is taken to be empty
ReadFromS3_DefaultingToEmpty(t) ==
  /\ run.stage = "read"
  /\ \E outcome \in GetOutcomes(store, INPUT_FILE(agent)) :
       run' = [run EXCEPT
                 !.reads = @ + 1,
                 !.stage = "analyze",
                 !.topic = IF outcome = "ok" THEN store[INPUT_FILE(agent)]
                                             ELSE <<>>]
  /\ UNCHANGED <<model, total_tokens_used, total_cost_incurred, pc, frame,
                 ret, before, engine_calls, engine_exc, calls, expected,
                 raced, successes, agent, store, runs>>

\* topic = self.read_from_s3(bucket, input_key): NoSuchKey becomes
\* FileNotFoundError, any other exception becomes Exception
ReadFromS3(t) ==
  /\ run.stage = "read"
  /\ \E outcome \in GetOutcomes(store, INPUT_FILE(agent)) :
       run' = [(IF outcome = "ok"
                  THEN [run EXCEPT !.stage = "analyze",
                                   !.topic = store[INPUT_FILE(agent)]]
                  ELSE RunRaises(IF outcome = "NoSuchKey"
                                   THEN "FileNotFoundError" ELSE "Exception",
                                 "read"))
               EXCEPT !.reads = @ + 1]
  /\ UNCHANGED <<model, total_tokens_used, total_cost_incurred, pc, frame,
                 ret, before, engine_calls, engine_exc, calls, expected,
                 raced, successes, agent, store, runs>>

\* response = self.analyze_topic(topic) / self.format_executive_summary(
\* raw_notes): the call of self.brain.generate_response
AnalyzeTopic(t) ==
  /\ run.stage = "analyze"
  /\ Invoke(t, AgentPrompt(agent, run.topic), Some(SYSTEM_PROMPT(agent)))
  /\ run' = [run EXCEPT !.stage = "generating", !.gateway_calls = @ + 1]
  /\ UNCHANGED <<agent, store, runs>>

\* notes_content / report_content: the blob built of the response
Notes(a, topic, response) ==
  [source |-> INPUT_FILE(a),
   tokens |-> response.estimated_tokens,
   cost |-> response.simulated_cost,
   topic |-> IF a = "researcher" THEN Some(topic) ELSE None,
   body |-> response.text]

\* generate_response is over: its exception leaves the workflow, or its
\* result is formatted into the blob to write
FormatNotes(t) ==
  /\ run.stage = "generating"
  /\ pc[t] = "idle"
  /\ run' = IF ret[t].kind = "raised"
              THEN RunRaises(ret[t].exc, "generate")
              ELSE [run EXCEPT !.stage = "write",
                               !.response = ret[t].value,
                               !.content = Notes(agent, run.topic, ret[t].value)]
  /\ UNCHANGED <<model, total_tokens_used, total_cost_incurred, pc, frame,
                 ret, before, engine_calls, engine_exc, calls, expected,
                 raced, successes, agent, store, runs>>

\* (mutant) a failed write takes the ledger back to where the run began
WriteToS3_RollingBack(t) ==
  /\ run.stage = "write"
  /\ \E stored \in BOOLEAN :
       IF stored
         THEN /\ store' = (OUTPUT_FILE(agent) :> run.content) @@ store
              /\ run' = [run EXCEPT
                           !.stage = "idle",
                           !.writes = @ + 1,
                           !.result = [kind |-> "returned",
                                       value |-> run.response.text]]
              /\ UNCHANGED <<total_tokens_used, total_cost_incurred>>
         ELSE /\ store' = store
              /\ run' = [RunRaises("Exception", "write")
                           EXCEPT !.writes = @ + 1]
              /\ total_tokens_used' = run.ledger0.tokens
              /\ total_cost_incurred' = run.ledger0.cost
  /\ UNCHANGED <<model, pc, frame, ret, before, engine_calls, engine_exc,
                 calls, expected, raced, successes, agent, runs>>

\* self.write_to_s3(bucket, output_key, notes_content); return summary.
\* Any exception of put_object becomes Exception.
WriteToS3(t) ==
  /\ run.stage = "write"
  /\ \E stored \in BOOLEAN :
       IF stored
         THEN /\ store' = (OUTPUT_FILE(agent) :> run.content) @@ store
              /\ run' = [run EXCEPT
                           !.stage = "idle",
                           !.writes = @ + 1,
                           !.result = [kind |-> "returned",
                                       value |-> run.response.text]]
         ELSE /\ store' = store
              /\ run' = [RunRaises("Exception", "write")
                           EXCEPT !.writes = @ + 1]
  /\ UNCHANGED <<model, total_tokens_used, total_cost_incurred, pc, frame,
                 ret, before, engine_calls, engine_exc, calls, expected,
                 raced, successes, agent, runs>>

\* get_session_cost(): return self.brain.total_cost_incurred
GetSessionCost(t) ==
  /\ agent # "none"
  /\ run.stage = "idle"
  /\ pc[t] = "idle"
  /\ ret' = [ret EXCEPT ![t] =
               [op |-> "get_session_cost", kind |-> "returned",
                value |-> total_cost_incurred]]
  /\ Begin(t)
  /\ UNCHANGED <<model, total_tokens_used, total_cost_incurred, pc, calls,
                 expected, raced, successes, agent_vars>>

\* the agent's get_fiscal_summary(): return self.brain.get_fiscal_summary()
AgentFiscalSummary(t) ==
  /\ agent # "none"
  /\ run.stage = "idle"
  /\ GetFiscalSummary(t)

NextWorkflow ==
  \/ \E a \in Agents : NewAgent(a)
  \/ \E text \in Topics : Upload(text)
  \/ StartRun(MainThread)
  \/ ReadFromS3(MainThread)
  \/ AnalyzeTopic(MainThread)
  \/ Chat(MainThread)
  \/ Extract(MainThread)
  \/ LoadTokens(MainThread)
  \/ StoreTokens(MainThread)
  \/ LoadCost(MainThread)
  \/ StoreCost(MainThread)
  \/ Return(MainThread)
  \/ FormatNotes(MainThread)
  \/ WriteToS3(MainThread)
  \/ GetSessionCost(MainThread)
  \/ AgentFiscalSummary(MainThread)

SpecWorkflow == Init /\ [][NextWorkflow]_vars

(***************************************************************************)
(* What the claims speak of.                                               *)
(***************************************************************************)
\* t's last operation was a generate_response that returned an LLMResponse
Returned(t) ==
  pc[t] = "idle" /\ ret[t].op = "generate_response" /\ ret[t].kind = "returned"

\* t's last operation was a generate_response that raised
Failed(t) ==
  pc[t] = "idle" /\ ret[t].op = "generate_response" /\ ret[t].kind = "raised"

\* t's last operation was a direct calculate_simulated_cost
Estimated(t) == pc[t] = "idle" /\ ret[t].op = "calculate_simulated_cost"

\* k = max(1, floor(n / 4)), said without the division
IsTokenEstimate(k, n) ==
  /\ k >= 1
  /\ n < 4 => k = 1
  /\ n >= 4 => (4 * k <= n /\ n < 4 * k + 4)

\* C1: a generate_response that returned has left each counter of the ledger
\* at its value before the call plus the result's own total, and the ledger
\* is the sum of the totals of all the calls that returned so far.
C1_SuccessAddsCallTotals ==
  \A t \in Threads :
    Returned(t) =>
      /\ total_tokens_used = before[t].tokens + ret[t].value.estimated_tokens
      /\ total_cost_incurred =
           FAdd(before[t].cost, ret[t].value.simulated_cost)
      /\ Ledger = expected

\* two calls have returned, the second on a ledger that was not zero
C1_Witness ==
  /\ Returned(MainThread)
  /\ calls = 2
  /\ before[MainThread].tokens > 0
  /\ total_tokens_used > before[MainThread].tokens

\* C2: a generate_response that raised, at the engine call or at the
\* extraction of the text from a malformed response, has left both counters as they were before the
\* call; until the first "+=" no step of a call has touched the ledger.
C2_FailureLeavesLedger ==
  \A t \in Threads :
    /\ Failed(t) => Ledger = before[t]
    /\ pc[t] \in {"chat", "extract", "load_tokens"} => Ledger = before[t]

\* the extraction raised on a malformed response, on a ledger that held the
\* totals of an earlier call
C2_Witness ==
  /\ Failed(MainThread)
  /\ ret[MainThread].exc = "KeyError"
  /\ frame[MainThread].input_tokens > 0
  /\ before[MainThread].tokens > 0

\* C3: calculate_simulated_cost(s) returns max(1, floor(len(s) / 4)) tokens:
\* 1 token for the empty string and for 1 to 7 characters, 3 for 12.
C3_TokenEstimate ==
  \A t \in Threads :
    Estimated(t) =>
      LET n == Len(ret[t].arg)
          k == ret[t].value[1]
      IN  /\ IsTokenEstimate(k, n)
          /\ n <= 7 => k = 1
          /\ n = 12 => k = 3

\* a text of 12 characters was estimated
C3_Witness ==
  /\ Estimated(MainThread)
  /\ Len(ret[MainThread].arg) = 12
  /\ ret[MainThread].value[1] = 3

\* The float x lies within 2^-51 of p millionths, relative to p millionths
\* (four units of roundoff: x comes from three rounded operations).
WithinRounding(x, p) ==
  /\ x.e < 0
  /\ LET scaled == BMul(x.m, BFromInt(1000000))
         exact  == BShl(BFromInt(p), 0 - x.e)
         slack  == BShl(BFromInt(p), (0 - x.e) - 51)
     IN  /\ BCmp(scaled, BAdd(exact, slack)) <= 0
         /\ BCmp(exact, BAdd(scaled, slack)) <= 0

\* the next float above a positive float x
FSucc(x) == FRound(BAdd(x.m, <<1>>), x.e, FALSE)

\* C4 as stated: the returned cost is (tokens / 1000) * 0.015 for the
\* returned token count, 3 tokens cost 0.000045 and the empty string costs
\* cost_rate / 1000, as equalities of floats.
C4_CostExactly ==
  \A t \in Threads :
    Estimated(t) =>
      LET k    == ret[t].value[1]
          cost == ret[t].value[2]
      IN  /\ cost = FMul(FDivInt(FFromInt(k), 1000), FLiteral(15, 1))
          /\ k = 3 => cost = FLiteral(45, 2)
          /\ Len(ret[t].arg) = 0 => cost = FDivInt(FLiteral(15, 1), 1000)

\* C4 (amended): the returned cost is the float (tokens / 1000) * 0.015,
\* evaluated in that order, for the returned token count; it lies within
\* four units of roundoff of tokens * 15 millionths; for 3 tokens it is the
\* float next below 0.000045, and for the empty string it is 0.000015, the
\* float next above 0.015 / 1000.
C4_CostWithinRounding ==
  \A t \in Threads :
    Estimated(t) =>
      LET k    == ret[t].value[1]
          cost == ret[t].value[2]
      IN  /\ cost = FMul(FDivInt(FFromInt(k), 1000), FLiteral(15, 1))
          /\ WithinRounding(cost, 15 * k)
          /\ k = 3 => FSucc(cost) = FLiteral(45, 2)
          /\ Len(ret[t].arg) = 0 =>
               /\ cost = FLiteral(15, 2)
               /\ cost = FSucc(FDivInt(FLiteral(15, 1), 1000))

\* a 3-token text was estimated and its cost is not the float 0.000045
C4_Witness ==
  /\ Estimated(MainThread)
  /\ ret[MainThread].value[1] = 3
  /\ ret[MainThread].value[2] # FLiteral(45, 2)
  /\ FSucc(ret[MainThread].value[2]) = FLiteral(45, 2)

\* C5: the ledger starts at zero tokens and zero cost, and no step of any
\* operation of the gateway decreases a counter or takes it back to zero.
C5_LedgerNeverDecreases ==
  /\ total_tokens_used = 0
  /\ total_cost_incurred = FZero
  /\ [][/\ total_tokens_used' >= total_tokens_used
        /\ FCmp(total_cost_incurred', total_cost_incurred) >= 0
        /\ total_tokens_used > 0 => total_tokens_used' > 0
        /\ total_cost_incurred # FZero => total_cost_incurred' # FZero]_vars

\* the ledger holds the totals of two calls, and a third call has failed
\* and a snapshot has been taken since
C5_Witness ==
  /\ ret[MainThread].op = "get_fiscal_summary"
  /\ calls = 3
  /\ total_tokens_used > 0
  /\ ret[MainThread].value.total_tokens_used = total_tokens_used
  /\ expected.tokens = total_tokens_used

\* C6 as stated: whatever the interleaving of two callers, once no call is
\* in progress the ledger is its initial value (zero) plus the totals of
\* every call that succeeded.
C6_AtomicAccumulation ==
  (\A t \in Threads : pc[t] = "idle") => Ledger = expected

\* C6 (amended): the two "+=" are not atomic; the ledger is the sum of the
\* totals of the calls that have accumulated whenever no caller stands
\* between its load of total_tokens_used and its store of
\* total_cost_incurred and no two callers have stood there at once.
C6_SumUnlessAccumulationsOverlap ==
  (Accumulating = {} /\ ~raced) => Ledger = expected

\* two calls in progress at once, both begun on the empty ledger, have both
\* returned without their accumulations overlapping
C6_Witness ==
  /\ \A t \in Threads : Returned(t) /\ before[t].tokens = 0
  /\ ~raced
  /\ total_tokens_used =
       ret[1].value.estimated_tokens + ret[2].value.estimated_tokens

\* C7 as stated: every failure of generate_response, a malformed engine
\* response included, reaches the caller as an error of the engine kind, and
\* no failure ends in a normal result.
C7_FailuresAreEngineErrors ==
  \A t \in Threads :
    /\ Failed(t) => ret[t].exc \in EngineErrors
    /\ Returned(t) => engine_exc[t] = "" /\ IsText(frame[t].response)

\* C7 (amended): an exception raised by the engine call reaches the caller
\* unchanged; a malformed engine response reaches the caller as the KeyError
\* of the extraction (message or content missing) or the TypeError of the
\* output estimate (content null), neither of the engine kind; no failure
\* ends in a normal result.
C7_FailuresPropagateAsRaised ==
  \A t \in Threads :
    /\ Failed(t) =>
         IF engine_exc[t] # ""
           THEN ret[t].exc = engine_exc[t] /\ ret[t].exc \in EngineErrors
           ELSE /\ ~IsText(frame[t].response)
                /\ ret[t].exc =
                     (IF HasText(frame[t].response) THEN "TypeError"
                                                    ELSE "KeyError")
                /\ ret[t].exc \notin EngineErrors
    /\ Returned(t) =>
         /\ engine_exc[t] = ""
         /\ IsText(frame[t].response)
         /\ ret[t].value.text = frame[t].response.message.content[1]

\* a malformed response has reached the caller as a KeyError
C7_Witness ==
  /\ Failed(MainThread)
  /\ engine_calls[MainThread] = 1
  /\ engine_exc[MainThread] = ""
  /\ ~HasKey(frame[MainThread].response, "message")
  /\ ret[MainThread].exc = "KeyError"

\* C8: a generate_response call invokes the engine once: not before the chat
\* step, once from then on, whether the call returns or raises.
C8_OneEngineCall ==
  \A t \in Threads :
    /\ pc[t] = "chat" => engine_calls[t] = 0
    /\ pc[t] \notin {"idle", "chat"} => engine_calls[t] = 1
    /\ (Returned(t) \/ Failed(t)) => engine_calls[t] = 1

\* the engine raised and the call failed after that one attempt
C8_Witness ==
  /\ Failed(MainThread)
  /\ engine_exc[MainThread] = "ConnectionError"
  /\ ret[MainThread].exc = "ConnectionError"
  /\ engine_calls[MainThread] = 1

\* the frame of t holds the locals of a generate_response call
InCall(t) == pc[t] # "idle" \/ ret[t].op = "generate_response"

\* C9: the input-side estimate is one estimate of system_message (empty when
\* absent) followed by prompt: max(1, floor((len + len) / 4)) tokens and the
\* cost of that many tokens; without a system_message it is the estimate of
\* the prompt alone.
C9_InputEstimateOfConcatenation ==
  \A t \in Threads :
    InCall(t) =>
      LET system == frame[t].system_message
          n == Len(frame[t].prompt)
                 + (IF system = None THEN 0 ELSE Len(system[1]))
          k == frame[t].input_tokens
      IN  /\ IsTokenEstimate(k, n)
          /\ frame[t].input_cost = SimulatedCost(k)
          /\ system = None => IsTokenEstimate(k, Len(frame[t].prompt))

\* a call whose input estimate (3 tokens for 6 + 6 characters) is not the
\* sum of the estimates of its two parts (1 + 1)
C9_Witness ==
  /\ InCall(MainThread)
  /\ frame[MainThread].system_message # None
  /\ Len(frame[MainThread].system_message[1]) = 6
  /\ Len(frame[MainThread].prompt) = 6
  /\ frame[MainThread].input_tokens = 3
  /\ frame[MainThread].input_tokens #
       EstimatedTokens(frame[MainThread].system_message[1])
         + EstimatedTokens(frame[MainThread].prompt)

\* C10: the LLMResponse of a call holds the totals of that call (input side
\* plus output side, tokens and cost), the text the engine returned and the
\* model of the gateway; its totals are the ledger's exactly when the ledger
\* was zero before the call.
C10_ResponseCarriesCallTotals ==
  \A t \in Threads :
    Returned(t) =>
      LET r == ret[t].value
      IN  /\ r.estimated_tokens =
               frame[t].input_tokens + frame[t].output_tokens
          /\ r.simulated_cost =
               FAdd(frame[t].input_cost, frame[t].output_cost)
          /\ IsTokenEstimate(frame[t].output_tokens, Len(r.text))
          /\ frame[t].output_cost = SimulatedCost(frame[t].output_tokens)
          /\ r.text = frame[t].response.message.content[1]
          /\ r.model = model
          /\ (r.estimated_tokens = total_tokens_used) <=> (before[t].tokens = 0)
          /\ (r.simulated_cost = total_cost_incurred) <=> (before[t].cost = FZero)

\* a call has returned on a ledger that was not zero: its response holds
\* less than the ledger
C10_Witness ==
  /\ Returned(MainThread)
  /\ before[MainThread].tokens > 0
  /\ ret[MainThread].value.estimated_tokens < total_tokens_used
  /\ FCmp(ret[MainThread].value.simulated_cost, total_cost_incurred) < 0

\* The float x lies within `units` units of roundoff (2^-53 each, relative)
\* of p millionths.
WithinUnits(x, p, units) ==
  /\ x.e < 0
  /\ LET scaled == BShl(BMul(x.m, BFromInt(1000000)), SigBits)
         exact  == BShl(BFromInt(p), SigBits - x.e)
         slack  == BShl(BFromInt(p * units), 0 - x.e)
     IN  /\ BCmp(scaled, BAdd(exact, slack)) <= 0
         /\ BCmp(exact, BAdd(scaled, slack)) <= 0

\* C11 as stated: the simulated_cost of every LLMResponse is the float
\* (estimated_tokens / 1000) * cost_rate.
C11_CostOfTotalTokens ==
  \A t \in Threads :
    Returned(t) =>
      ret[t].value.simulated_cost = SimulatedCost(ret[t].value.estimated_tokens)

\* C11 (amended): the simulated_cost of every LLMResponse is the float sum of
\* the input-side and the output-side cost, each of them the float
\* (side tokens / 1000) * cost_rate; that sum lies within eight units of
\* roundoff of estimated_tokens * 15 millionths, and it is not always the
\* float (estimated_tokens / 1000) * cost_rate.
C11_CostOfTotalWithinRounding ==
  \A t \in Threads :
    Returned(t) =>
      LET r == ret[t].value
      IN  /\ r.simulated_cost =
               FAdd(SimulatedCost(frame[t].input_tokens),
                    SimulatedCost(frame[t].output_tokens))
          /\ r.estimated_tokens =
               frame[t].input_tokens + frame[t].output_tokens
          /\ WithinUnits(r.simulated_cost, 15 * r.estimated_tokens, 8)

\* a call of 1 input token and 2 output tokens has returned a cost that is
\* not the float cost of 3 tokens
C11_Witness ==
  /\ Returned(MainThread)
  /\ frame[MainThread].input_tokens = 1
  /\ frame[MainThread].output_tokens = 2
  /\ ret[MainThread].value.estimated_tokens = 3
  /\ ret[MainThread].value.simulated_cost # SimulatedCost(3)

\* C12: of two estimates, the one of the text that is not longer has no more
\* tokens and no higher cost; and every estimate costs at least the cost of
\* one token, which is at least cost_rate / 1000.
C12_MonotonicInLength ==
  /\ \A t, u \in Threads :
       (Estimated(t) /\ Estimated(u) /\ Len(ret[t].arg) <= Len(ret[u].arg)) =>
         /\ ret[t].value[1] <= ret[u].value[1]
         /\ FCmp(ret[t].value[2], ret[u].value[2]) <= 0
  /\ \A t \in Threads :
       Estimated(t) =>
         /\ FCmp(ret[t].value[2], SimulatedCost(1)) >= 0
         /\ FCmp(ret[t].value[2],
                 FDivInt(COST_PER_1K_TOKENS, PerThousand)) >= 0

\* the two callers hold the estimates of 7 and of 8 characters: 1 token and
\* 2 tokens, the second at the higher cost
C12_Witness ==
  /\ Estimated(1) /\ Estimated(2)
  /\ Len(ret[1].arg) = 7 /\ Len(ret[2].arg) = 8
  /\ ret[1].value[1] = 1 /\ ret[2].value[1] = 2
  /\ FCmp(ret[1].value[2], ret[2].value[2]) < 0

\* C13: no step that leaves a caller with a fresh result of
\* calculate_simulated_cost changes total_tokens_used or total_cost_incurred;
\* and two estimates of the same text are the same pair, whatever the ledger
\* held when each was made and whatever was called in between.
C13_EstimateHasNoSideEffect ==
  /\ [](\A t, u \in Threads :
          (Estimated(t) /\ Estimated(u) /\ ret[t].arg = ret[u].arg) =>
            ret[t].value = ret[u].value)
  /\ [][\A t \in Threads :
          (ret'[t].op = "calculate_simulated_cost" /\ ret'[t] # ret[t]) =>
            /\ total_tokens_used' = total_tokens_used
            /\ total_cost_incurred' = total_cost_incurred]_vars

\* the two callers hold estimates of the same text, one made on the empty
\* ledger, the other after a generate_response has charged the ledger
C13_Witness ==
  /\ Estimated(1) /\ Estimated(2)
  /\ ret[1].arg = ret[2].arg
  /\ Len(ret[1].arg) = 12
  /\ before[2].tokens = 0
  /\ before[1].tokens > 0
  /\ Ledger = before[1]
  /\ ret[1].value = ret[2].value

\* t's last operation was a check_connection
Probed(t) == pc[t] = "idle" /\ ret[t].op = "check_connection"

\* C14: check_connection ends in a returned boolean, never in an exception:
\* TRUE exactly when the list probe returned, FALSE for every exception the
\* probe raised; and the ledger is as it was before the call.
C14_ProbeNeverRaises ==
  \A t \in Threads :
    Probed(t) =>
      /\ ret[t].kind = "returned"
      /\ ret[t].value \in BOOLEAN
      /\ ret[t].value <=> (engine_exc[t] = "")
      /\ engine_exc[t] \in EngineErrors => ret[t].value = FALSE
      /\ Ledger = before[t]

\* the probe raised ResponseError on a gateway whose ledger held a charge,
\* and check_connection returned FALSE
C14_Witness ==
  /\ Probed(MainThread)
  /\ engine_exc[MainThread] = "ResponseError"
  /\ ret[MainThread].kind = "returned"
  /\ ret[MainThread].value = FALSE
  /\ total_tokens_used > 0

\* t's last operation was a get_fiscal_summary
Summarised(t) == pc[t] = "idle" /\ ret[t].op = "get_fiscal_summary"

\* C15: get_fiscal_summary returns the four entries total_tokens_used and
\* total_cost_incurred as the ledger holds them, the cost rate 0.015 and the
\* model of the gateway, and the ledger is as it was before the call.
C15_SummaryIsPureRead ==
  \A t \in Threads :
    Summarised(t) =>
      /\ ret[t].kind = "returned"
      /\ DOMAIN ret[t].value =
           {"total_tokens_used", "total_cost_incurred", "cost_per_1k_tokens",
            "model"}
      /\ ret[t].value.total_tokens_used = total_tokens_used
      /\ ret[t].value.total_cost_incurred = total_cost_incurred
      /\ ret[t].value.cost_per_1k_tokens = FLiteral(15, 1)
      /\ ret[t].value.model = model
      /\ Ledger = before[t]

\* a summary taken of a ledger that two calls have charged, on a gateway of
\* another model than the default, its cost not the cost of its tokens
C15_Witness ==
  /\ Summarised(MainThread)
  /\ model # DEFAULT_MODEL
  /\ expected.tokens > 3
  /\ ret[MainThread].value.total_tokens_used = expected.tokens
  /\ ret[MainThread].value.total_cost_incurred = expected.cost
  /\ ret[MainThread].value.total_cost_incurred #
       SimulatedCost(ret[MainThread].value.total_tokens_used)

\* the contents of a message sequence, one after the other
RECURSIVE Contents(_)
Contents(messages) ==
  IF messages = <<>> THEN <<>>
  ELSE Head(messages).content \o Contents(Tail(messages))

\* C16 as stated: the messages are a system message holding system_message
\* whenever one was passed, the empty string included, then one user message
\* holding prompt; the user message alone when none was passed.
C16_SystemMessageWheneverProvided ==
  \A t \in Threads :
    InCall(t) =>
      frame[t].messages =
        (IF frame[t].system_message # None
           THEN <<[role |-> "system", content |-> frame[t].system_message[1]]>>
           ELSE <<>>)
        \o <<[role |-> "user", content |-> frame[t].prompt]>>

\* C16 (amended): the messages are a system message holding system_message
\* exactly when one was passed and is not the empty string, then one user
\* message holding prompt; the user message alone when none or the empty
\* string was passed.  The contents of the messages, one after the other,
\* are the text the input-side estimate is made of.
C16_SystemMessageWhenNonEmpty ==
  \A t \in Threads :
    InCall(t) =>
      LET system   == frame[t].system_message
          messages == frame[t].messages
          user     == [role |-> "user", content |-> frame[t].prompt]
      IN  /\ (system # None /\ system[1] # <<>>) =>
               messages = <<[role |-> "system", content |-> system[1]], user>>
          /\ (system = None \/ system[1] = <<>>) => messages = <<user>>
          /\ frame[t].input_tokens = EstimatedTokens(Contents(messages))
          /\ frame[t].input_cost =
               SimulatedCost(EstimatedTokens(Contents(messages)))
          /\ pc[t] # "chat" => engine_calls[t] = 1

\* a call that was passed the empty string as system_message has sent the
\* user message alone
C16_Witness ==
  /\ InCall(MainThread)
  /\ engine_calls[MainThread] = 1
  /\ frame[MainThread].system_message = Some(<<>>)
  /\ Len(frame[MainThread].prompt) = 6
  /\ Len(frame[MainThread].messages) = 1
  /\ frame[MainThread].messages[1].role = "user"

\* no generate_response is in progress
Quiescent == \A t \in Threads : pc[t] = "idle"

\* C18 as stated: whenever no call is in progress, total_cost_incurred is the
\* float (total_tokens_used / 1000) * cost_rate.
C18_CostOfLedgerTokens ==
  Quiescent => total_cost_incurred = SimulatedCost(total_tokens_used)

\* C18 (amended): whenever no call is in progress the two counters cover the
\* same calls: total_tokens_used is the sum of the estimated_tokens and
\* total_cost_incurred the float sum, in call order, of the simulated_cost
\* of the calls that returned; the cost is zero while the tokens are zero,
\* and after n calls it lies within n + 7 units of roundoff of
\* total_tokens_used * 15 millionths, without being always the float
\* (total_tokens_used / 1000) * cost_rate.
C18_CountersCoverSameCalls ==
  Quiescent =>
    /\ Ledger = expected
    /\ total_tokens_used = 0 <=> total_cost_incurred = FZero
    /\ total_tokens_used > 0 =>
         WithinUnits(total_cost_incurred, 15 * total_tokens_used, calls + 7)

\* three calls have returned and the cost counter is not the float cost of
\* the token counter
C18_Witness ==
  /\ Quiescent
  /\ calls = 3
  /\ Returned(MainThread)
  /\ before[MainThread].tokens >= 4
  /\ Ledger = expected
  /\ total_cost_incurred # SimulatedCost(total_tokens_used)

\* C19: every generate_response that returned has at least 1 token on each
\* side, so at least 2 in its result, also with every text empty; it has
\* raised both counters of the ledger, the tokens by at least 2; and the
\* ledger holds at least 2 tokens for each call that returned.
C19_TwoTokensPerCall ==
  /\ total_tokens_used >= 2 * successes
  /\ \A t \in Threads :
       Returned(t) =>
         /\ frame[t].input_tokens >= 1
         /\ frame[t].output_tokens >= 1
         /\ ret[t].value.estimated_tokens >= 2
         /\ total_tokens_used >= before[t].tokens + 2
         /\ FCmp(total_cost_incurred, before[t].cost) > 0
         /\ successes >= 1

\* three calls have returned, the last with the prompt and the engine's
\* text empty and no system message: 2 tokens, on a ledger that held 4
C19_Witness ==
  /\ Returned(MainThread)
  /\ successes = 3
  /\ frame[MainThread].prompt = <<>>
  /\ frame[MainThread].system_message = None
  /\ ret[MainThread].value.text = <<>>
  /\ ret[MainThread].value.estimated_tokens = 2
  /\ before[MainThread].tokens = 4
  /\ total_tokens_used = 6

\* the last workflow run ended in an exception raised at the given step
RunFailedAt(step) ==
  run.stage = "idle" /\ run.result.kind = "raised" /\ run.result.at = step

\* the output blob of the agent is the one the run started from
OutputUntouched == Blob(store, OUTPUT_FILE(agent)) = run.output0

\* C17: a workflow run reads its input blob, calls generate_response and
\* writes its output blob in that order, each at most once: the gateway is
\* called only with the text of a blob that was read, the write is attempted
\* only with the response of a call that returned; after a failed read the
\* gateway has not been called, the ledger and the output blob are as they
\* were; after a failed gateway call nothing has been written.
C17_ReadGenerateWriteInOrder ==
  /\ run.reads <= 1 /\ run.gateway_calls <= 1 /\ run.writes <= 1
  /\ calls <= runs
  /\ run.gateway_calls <= run.reads
  /\ run.writes <= run.gateway_calls
  /\ (run.gateway_calls = 1 /\ run.stage # "idle") =>
       /\ INPUT_FILE(agent) \in DOMAIN store
       /\ run.topic = store[INPUT_FILE(agent)]
       /\ frame[MainThread].prompt = AgentPrompt(agent, run.topic)
  /\ run.gateway_calls = 1 =>
       ~(run.result.kind = "raised" /\ run.result.at = "read")
  /\ run.writes = 1 =>
       /\ run.response # NoResult
       /\ Returned(MainThread) \/ ret[MainThread].op # "generate_response"
       /\ total_tokens_used =
            run.ledger0.tokens + run.response.estimated_tokens
  /\ run.stage \in {"read", "analyze", "generating", "write"} =>
       run.writes = 0 /\ OutputUntouched
  /\ RunFailedAt("read") =>
       /\ run.reads = 1 /\ run.gateway_calls = 0 /\ run.writes = 0
       /\ Ledger = run.ledger0
       /\ OutputUntouched
  /\ RunFailedAt("generate") =>
       /\ run.reads = 1 /\ run.gateway_calls = 1 /\ run.writes = 0
       /\ Ledger = run.ledger0
       /\ OutputUntouched

\* a first run has read, generated and written; the second run has failed
\* at its read, with the ledger and the output blob of the first run kept
C17_Witness ==
  /\ runs = 2
  /\ RunFailedAt("read")
  /\ run.gateway_calls = 0
  /\ calls = 1
  /\ total_tokens_used > 0
  /\ Blob(store, OUTPUT_FILE(agent)) # None
  /\ Blob(store, OUTPUT_FILE(agent)) = run.output0

\* C20: when generate_response has returned and the write of the output blob
\* fails, the workflow ends in the Exception of write_to_s3, the output blob
\* is the one the run started from, and the ledger holds what it held when
\* the run began plus the totals of that call; get_session_cost and
\* get_fiscal_summary, called afterwards, give those totals.
C20_ChargeKeptWhenWriteFails ==
  RunFailedAt("write") =>
    /\ run.result.exc = "Exception"
    /\ run.gateway_calls = 1
    /\ run.writes = 1
    /\ run.response # NoResult
    /\ OutputUntouched
    /\ total_tokens_used =
         run.ledger0.tokens + run.response.estimated_tokens
    /\ total_cost_incurred =
         FAdd(run.ledger0.cost, run.response.simulated_cost)
    /\ total_tokens_used >= run.ledger0.tokens + 2
    /\ FCmp(total_cost_incurred, run.ledger0.cost) > 0
    /\ ret[MainThread].op = "get_session_cost" =>
         ret[MainThread].value =
           FAdd(run.ledger0.cost, run.response.simulated_cost)
    /\ ret[MainThread].op = "get_fiscal_summary" =>
         /\ ret[MainThread].value.total_tokens_used =
              run.ledger0.tokens + run.response.estimated_tokens
         /\ ret[MainThread].value.total_cost_incurred =
              FAdd(run.ledger0.cost, run.response.simulated_cost)

\* the second run of an agent has failed at its write after its generation
\* call returned; the output blob is still the one of the first run, and
\* get_session_cost gives the cost of both calls
C20_Witness ==
  /\ runs = 2
  /\ RunFailedAt("write")
  /\ run.ledger0.tokens > 0
  /\ run.output0 # None
  /\ Blob(store, OUTPUT_FILE(agent)) = run.output0
  /\ ret[MainThread].op = "get_session_cost"
  /\ ret[MainThread].value = total_cost_incurred
  /\ FCmp(ret[MainThread].value, run.ledger0.cost) > 0

=============================================================================
